---- MODULE Spec2Model ----
(***************************************************************************)
(* Model of the query-to-answer orchestration of the Titanic chat agent    *)
(* (src/backend/services/agent.py): the process-wide model cascade         *)
(* (_llm, _model_index), process_query with its first-phase cascade loop,  *)
(* the execution of generated code, the single retry and the assembly of   *)
(* the {response, image_url} result.                                       *)
(*                                                                         *)
(* A request is split at its blocking calls (llm.invoke and exec); the     *)
(* code that runs between two blocking calls is one atomic step.  Two      *)
(* request slots may be in flight at once.                                 *)
(*                                                                         *)
(* Texts are sequences of tokens: an error message is a sequence of words, *)
(* captured output a sequence of characters, a response the concatenation  *)
(* of fixed pieces and embedded messages.                                  *)
(*                                                                         *)
(* Three further specifications cover the code around process_query:       *)
(* SpecClean the sanitizer _clean_code, SpecEndpoint the chat endpoint     *)
(* (src/backend/api/endpoints.py), and SpecUI the two Streamlit front ends *)
(* (src/frontend/app.py, and src/streamlit_app.py with its own             *)
(* process_query).                                                         *)
(***************************************************************************)
EXTENDS Integers, Sequences, FiniteSets, TLC

\* ---------------------------------------------------------------- bounds
\* Number of requests started in one process run, one after the other.
MaxRequests == 3
\* Number of requests started in one process run when calls may overlap.
MaxOverlapping == 2
\* Number of distinct plot file names uuid4().hex[:8] can yield.
NPlots == 2
\* Longest model reply (in tokens) handed to _clean_code.
MaxReplyLen == 5
\* Number of script runs of a front end that a widget event starts.
MaxRuns == 3

\* ------------------------------------------------------------- constants
MODEL_CASCADE == <<"llama-3.3-70b-versatile", "llama3-70b-8192",
                   "mixtral-8x7b-32768", "llama3-8b-8192">>
N == Len(MODEL_CASCADE)
GROQ_MODEL == "llama-3.3-70b-versatile"
NoClient == "None"

QUOTA_PHRASES == { <<"RESOURCE_EXHAUSTED">>, <<"quota">>, <<"rate", "limit">>,
                   <<"429">>, <<"Too", "Many", "Requests">> }

Reqs == {"A", "B"}
Plots == 1..NPlots

\* Messages of the failures llm.invoke can raise.
ApiMsgs == { <<"Rate", "Limit", "reached">>, <<"connection", "timeout">> }
\* Messages of the exceptions generated code can raise (str(exc)); the empty
\* message is that of a bare raise ValueError() or a failed assert.
ExecMsgs == { <<>>, <<"boom">>, <<"oops">>, <<"KeyError", "429">> }
\* What generated code can leave in the stdout buffer.
Bufs == { <<>>, <<" ">>, <<" ", "a", "NL">> }
\* What generated code can do to the file at PLOT_PATH.
FileEffects == {"keep", "write_empty", "write_nonempty"}
\* How running generated code can end: normally, with an Exception, or with a
\* BaseException that is not an Exception (SystemExit from exit()/sys.exit()).
ExecEnds == {"ok", "Exception", "BaseException"}
\* The table objects: the one loaded at import (_df) and the copy each call
\* makes for its namespace.  The content of a table is the set of calls whose
\* code has changed rows of it.
Canon == "_df"
TableIds == {Canon} \cup Reqs

\* The inputs a specification draws from: the number of calls, the replies of
\* the remote model and the behaviours of the generated code.
SeqInputs == [max |-> MaxRequests, api |-> ApiMsgs, ends |-> ExecEnds,
              msgs |-> ExecMsgs, bufs |-> Bufs, fes |-> FileEffects,
              muts |-> BOOLEAN]
ParInputs == [max |-> MaxOverlapping, api |-> ApiMsgs, ends |-> {"ok", "Exception"},
              msgs |-> {<<"boom">>}, bufs |-> {<<>>},
              fes |-> {"keep"}, muts |-> BOOLEAN]

\* ------------------------------------------------------------- text helpers
Whitespace == {" ", "NL"}

RECURSIVE lstrip(_)
lstrip(s) == IF s # <<>> /\ Head(s) \in Whitespace THEN lstrip(Tail(s)) ELSE s

RECURSIVE rstrip(_)
rstrip(s) == IF s # <<>> /\ s[Len(s)] \in Whitespace
             THEN rstrip(SubSeq(s, 1, Len(s) - 1)) ELSE s

strip(s) == rstrip(lstrip(s))

\* ------------------------------------------------------------- _clean_code
\* A reply is a sequence of tokens: the fence marker, a newline, a blank, the
\* word python, and any other run of characters.
Fence == "FENCE"
ReplyTokens == {Fence, "NL", " ", "python", "a"}

RECURSIVE SeqsUpTo(_, _)
SeqsUpTo(S, n) ==
    IF n = 0 THEN {<<>>}
    ELSE LET shorter == SeqsUpTo(S, n - 1)
         IN  shorter \cup {Append(t, x) : t \in {u \in shorter : Len(u) = n - 1}, x \in S}

Replies == SeqsUpTo(ReplyTokens, MaxReplyLen)

\* first position at or after i that holds no whitespace (Len(s) + 1 if none)
RECURSIVE SkipWs(_, _)
SkipWs(s, i) == IF i <= Len(s) /\ s[i] \in Whitespace THEN SkipWs(s, i + 1) ELSE i

\* ^ under re.MULTILINE: the start of the text or just after a newline
LineStart(s, i) == i = 1 \/ s[i - 1] = "NL"

\* \s*```(?:python)?\s*\n? tried at position i: the position after the match,
\* or 0 when it does not match there
MatchOpen(s, i) ==
    LET j == SkipWs(s, i) IN
    IF j <= Len(s) /\ s[j] = Fence
    THEN SkipWs(s, IF j + 1 <= Len(s) /\ s[j + 1] = "python" THEN j + 2 ELSE j + 1)
    ELSE 0

\* $ under re.MULTILINE: the end of the text or just before a newline
LineEnd(s, e) == e > Len(s) \/ s[e] = "NL"

\* \n?\s*```\s*$ tried at position i: the position after the match (the greedy
\* \s* backs off to the last place where $ holds), or 0 when it does not match
MatchClose(s, i) ==
    LET j == SkipWs(s, i) IN
    IF j <= Len(s) /\ s[j] = Fence
    THEN LET e    == SkipWs(s, j + 1)
             ends == {n \in (j + 1)..e : LineEnd(s, n)}
         IN  IF ends = {} THEN 0 ELSE CHOOSE n \in ends : \A n2 \in ends : n2 <= n
    ELSE 0

\* re.sub(pattern, "", raw, flags=re.MULTILINE): every match, left to right
RECURSIVE sub_open(_, _)
sub_open(s, i) ==
    IF i > Len(s) THEN <<>>
    ELSE IF LineStart(s, i) /\ MatchOpen(s, i) # 0 THEN sub_open(s, MatchOpen(s, i))
    ELSE <<s[i]>> \o sub_open(s, i + 1)

RECURSIVE sub_close(_, _)
sub_close(s, i) ==
    IF i > Len(s) THEN <<>>
    ELSE IF MatchClose(s, i) # 0 THEN sub_close(s, MatchClose(s, i))
    ELSE <<s[i]>> \o sub_close(s, i + 1)

clean_code(raw) == strip(sub_close(sub_open(raw, 1), 1))

lower_tok(t) ==
    CASE t = "RESOURCE_EXHAUSTED" -> "resource_exhausted"
      [] t = "Rate"     -> "rate"
      [] t = "Limit"    -> "limit"
      [] t = "Too"      -> "too"
      [] t = "Many"     -> "many"
      [] t = "Requests" -> "requests"
      [] t = "KeyError" -> "keyerror"
      [] OTHER          -> t

lower(s) == [i \in 1..Len(s) |-> lower_tok(s[i])]

\* p occurs in s as a contiguous run
Contains(s, p) ==
    \E i \in 0..(Len(s) - Len(p)) : \A j \in 1..Len(p) : s[i + j] = p[j]

is_quota_error_all(msg) == TRUE
is_quota_error_cased(msg) == \E p \in QUOTA_PHRASES : Contains(msg, p)
is_quota_error(msg) == \E p \in QUOTA_PHRASES : Contains(lower(msg), lower(p))

\* Python truthiness of err_msg: None and "" are both falsy.  err_msg is
\* modelled as {} (None) or {m}.
NoErr == {}
Truthy(e) == e # {} /\ \A m \in e : m # <<>>
MsgOf(e) == CHOOSE m \in e : TRUE

\* ------------------------------------------------------------- responses
NoImage == <<>>
ConfigMsg == <<"GROQ_API_KEY is not configured. Add it to your .env file and restart the server.">>
RateLimitedMsg == <<"All Groq models are currently rate-limited.">>
NoResponseMsg == <<"No response generated. Please try again.">>
QuotaReachedMsg == <<"API quota reached for today. Please wait a moment and try again.">>
NoOutputMsg == <<"The analysis ran but produced no printable output. Try rephrasing.">>
VisualisationMsg == <<"Here is the visualisation:">>
ApiErrorResponse(m) == <<"Could not contact Gemini API: ">> \o m
ExecErrorResponse(m) ==
    <<"I ran into an error while analysing your request: ">> \o m
        \o <<" Please try rephrasing your question.">>
IsExecErrorResponse(resp) ==
    resp # <<>> /\ resp[1] = "I ran into an error while analysing your request: "

\* ------------------------------------------------------------- state
VARIABLES
    GROQ_API_KEY,   \* TRUE iff settings.GROQ_API_KEY is non-empty
    llm,            \* _llm: the shared client, named by the model it is bound to
    model_index,    \* _model_index
    files,          \* STATIC_DIR: state of the file at each plot name
    started,        \* number of requests started so far
    req,            \* locals of each process_query call in flight
    hist,           \* what each call has done so far (for the properties)
    tables,         \* content of each table object
    raw,            \* a reply of the model, as handed to _clean_code
    cleaned,        \* the results of applying _clean_code to it, once and again
    ep,             \* the chat endpoint: the request being answered and its answer
    ui,             \* a chat front end: st.session_state and the position of the script
    sa              \* the standalone app's process_query: its locals and what it did

vars == <<GROQ_API_KEY, llm, model_index, files, started, req, hist, tables, raw, cleaned,
          ep, ui, sa>>

agentVars == <<llm, model_index, files, started, req, hist, tables, raw, cleaned>>
frontVars == <<ep, ui, sa>>

IdleReq == [pc |-> "idle", llm |-> NoClient, attempt |-> 0, plot |-> 0,
            text |-> <<>>, err_msg |-> NoErr,
            response |-> <<>>, image_url |-> NoImage]

\* calls/quotaFails: first-phase invocations made / failed as quota errors;
\* apiMsg: message of the last first-phase failure; rcalls: invocations made by
\* the retry; execs: executions of generated code; startIdx/endIdx: the cascade
\* index when the call started / when it last advanced or ended; wrote: some
\* execution wrote a non-empty file at the plot path; first, firstMsg,
\* firstText: how the first execution ended; retry, retryMsg: how the retry
\* ended; out: the raw stdout behind the final text.
IdleHist == [calls |-> 0, quotaFails |-> 0, apiMsg |-> NoErr, rcalls |-> 0,
             execs |-> 0, startIdx |-> 0, endIdx |-> 0,
             wrote |-> FALSE, first |-> "none", firstMsg |-> NoErr,
             firstText |-> <<>>, retry |-> "none", retryMsg |-> NoErr,
             out |-> <<>>, saw |-> {}, invoked |-> <<>>, rinvoked |-> <<>>]
\* ... saw: the calls whose row changes the code of this call has found in df;
\* invoked: the models invoked in the first phase, in order; rinvoked: the
\* models invoked by the retry.

\* ------------------------------------------------------------- front ends
NoTrigger == <<"None">>
NoEvent == [kind |-> "none", q |-> <<>>]

IdleEp == [pc |-> "idle", message |-> <<>>, called |-> FALSE, outcome |-> "none",
           result |-> [response |-> <<>>, image_url |-> NoImage], raised |-> <<>>,
           status |-> 0, detail |-> <<>>,
           body |-> [response |-> <<>>, image_url |-> NoImage], posts |-> 0]

\* variant: which front end runs ("frontend": frontend/app.py, "standalone":
\* streamlit_app.py); messages, trigger: st.session_state; pc: where the script
\* run stands; event: the widget event that started the run; cont: what called
\* _handle_query; asked: non-blank questions handled since the last clear.
IdleUi(v) == [variant |-> v, messages |-> <<>>, trigger |-> NoTrigger, pc |-> "idle",
              event |-> NoEvent, cont |-> "none", asked |-> 0, runs |-> 0]

\* pos: position of the loop `for model in _MODEL_CASCADE`; invoked: models
\* invoked by this request; quotaFails: its quota failures; earlier: quota
\* failures of the requests before it.
IdleSa == [pc |-> "idle", pos |-> 1, invoked |-> <<>>, quotaFails |-> 0,
           result |-> <<>>, earlier |-> 0]

InitFront ==
    /\ ep = IdleEp
    /\ ui = IdleUi("frontend")
    /\ sa = IdleSa

InitAgent ==
    /\ llm = NoClient
    /\ model_index = 0
    /\ files = [p \in Plots |-> "absent"]
    /\ started = 0
    /\ req = [r \in Reqs |-> IdleReq]
    /\ hist = [r \in Reqs |-> IdleHist]
    /\ tables = [t \in TableIds |-> {}]

Init ==
    /\ GROQ_API_KEY \in BOOLEAN
    /\ InitAgent
    /\ raw = <<>>
    /\ cleaned = <<>>
    /\ InitFront

\* ------------------------------------------------------------- _get_llm
key_missing_never(client, key) == FALSE
key_missing(client, key) == client = NoClient /\ ~key

get_llm_fresh(client) == GROQ_MODEL
get_llm(client) == IF client = NoClient THEN GROQ_MODEL ELSE client

\* ------------------------------------------------------------- _try_next_model
next_index_wrap(i) == (i + 1) % N
next_index_skip(i) == i + 2
next_index_stay(i) == i
next_index_reset(i) == 0
next_index(i) == i + 1

exhausted(i) == i >= N

\* ------------------------------------------------------------- namespace
\* line 253: "df": _df.copy() gives the call a table object of its own
df_copy_alias(r) == Canon
df_copy(r) == r

\* the namespace of call r is dropped when the call ends
discard(ts, r) == [ts EXCEPT ![r] = {}]

\* the generated code of call r changes rows of the table object id
mutate(ts, id, r, mut) == IF mut THEN [ts EXCEPT ![id] = @ \cup {r}] ELSE ts

\* lines 280-284: the retry invokes the local llm, the client the first phase
\* ended with (not the shared _llm)
retry_client_shared(r, local, shared) == shared
retry_client(r, local, shared) == local

\* line 288: the retry's code runs in ns, the namespace of the first attempt
retry_ns_fresh(ts, r) == [ts EXCEPT ![r] = ts[Canon]]
retry_ns(ts, r) == ts

\* ------------------------------------------------------------- plot check
apply_effect(fs, p, fe) ==
    CASE fe = "keep"           -> fs
      [] fe = "write_empty"    -> [fs EXCEPT ![p] = "empty"]
      [] fe = "write_nonempty" -> [fs EXCEPT ![p] = "nonempty"]

image_url_of(fs, p) == IF fs[p] = "nonempty" THEN <<"/static/", p>> ELSE NoImage

files_after_check(fs, p) == IF fs[p] = "empty" THEN [fs EXCEPT ![p] = "absent"] ELSE fs

build_response_err_first(err, text, img) ==
    IF Truthy(err) THEN ExecErrorResponse(MsgOf(err))
    ELSE IF text = <<>> /\ img = NoImage THEN NoOutputMsg
    ELSE IF text = <<>> THEN VisualisationMsg
    ELSE text
build_response(err, text, img) ==
    IF Truthy(err) /\ text = <<>> THEN ExecErrorResponse(MsgOf(err))
    ELSE IF text = <<>> /\ img = NoImage THEN NoOutputMsg
    ELSE IF text = <<>> /\ img # NoImage THEN VisualisationMsg
    ELSE text

\* the early returns: {"response": resp, "image_url": None}
Return(r, resp) ==
    /\ req' = [req EXCEPT ![r].pc = "done", ![r].response = resp,
                          ![r].image_url = NoImage]

\* lines 302-323: check for the saved plot, build the response, return
Assemble(r, fs, err, text) ==
    LET img == image_url_of(fs, req[r].plot) IN
    /\ files' = files_after_check(fs, req[r].plot)
    /\ req' = [req EXCEPT ![r].pc = "done", ![r].err_msg = err, ![r].text = text,
                          ![r].response = build_response(err, text, img),
                          ![r].image_url = img]

\* line 272: `if err_msg and not text`
needs_retry(err, text) == Truthy(err) /\ text = <<>>

\* history bookkeeping of a step that ends the call
Ended(h, idx) == [h EXCEPT !.endIdx = idx]

\* ------------------------------------------------------------- process_query
\* lines 208-219: obtain the client, reserve the plot name, build the prompt
Start(r, I) ==
    /\ req[r].pc = "idle"
    /\ started < I.max
    /\ started' = started + 1
    /\ IF key_missing(llm, GROQ_API_KEY)
       THEN /\ Return(r, ConfigMsg)
            /\ UNCHANGED llm
            /\ hist' = [hist EXCEPT ![r] = [IdleHist EXCEPT !.startIdx = model_index,
                                                           !.endIdx = model_index]]
       ELSE \E p \in Plots :
            /\ llm' = get_llm(llm)
            /\ req' = [req EXCEPT ![r] = [IdleReq EXCEPT !.pc = "invoke",
                                                         !.llm = get_llm(llm),
                                                         !.plot = p]]
            /\ hist' = [hist EXCEPT ![r] = [IdleHist EXCEPT !.startIdx = model_index]]
    /\ UNCHANGED <<frontVars, GROQ_API_KEY, model_index, files, raw, cleaned, tables>>

\* lines 221-228: llm.invoke returned a reply; the code is cleaned and kept
InvokeOk(r) ==
    /\ req[r].pc = "invoke"
    /\ req' = [req EXCEPT ![r].pc = "exec1"]
    /\ hist' = [hist EXCEPT ![r].calls = @ + 1,
                            ![r].invoked = Append(@, req[r].llm)]
    /\ UNCHANGED <<frontVars, GROQ_API_KEY, llm, model_index, files, started, raw, cleaned, tables>>

\* lines 229-247 with _try_next_model (95-111): llm.invoke raised
InvokeFail(r, I) ==
    /\ req[r].pc = "invoke"
    /\ \E m \in I.api :
       IF is_quota_error(m)
       THEN LET ni == next_index(model_index) IN
            /\ model_index' = ni
            /\ IF exhausted(ni)
               THEN /\ UNCHANGED llm
                    /\ Return(r, RateLimitedMsg)
               ELSE /\ llm' = MODEL_CASCADE[ni + 1]
                    /\ IF req[r].attempt + 1 >= N
                       THEN req' = [req EXCEPT ![r].pc = "done",
                                               ![r].llm = MODEL_CASCADE[ni + 1],
                                               ![r].attempt = @ + 1,
                                               ![r].response = NoResponseMsg,
                                               ![r].image_url = NoImage]
                       ELSE req' = [req EXCEPT ![r].llm = MODEL_CASCADE[ni + 1],
                                               ![r].attempt = @ + 1]
            /\ hist' = [hist EXCEPT ![r] = [@ EXCEPT !.calls = @ + 1, !.quotaFails = @ + 1,
                                                      !.invoked = Append(@, req[r].llm),
                                                      !.apiMsg = {m}, !.endIdx = ni]]
       ELSE /\ Return(r, ApiErrorResponse(m))
            /\ hist' = [hist EXCEPT ![r] = Ended([@ EXCEPT !.calls = @ + 1,
                                                          !.invoked = Append(@, req[r].llm),
                                                          !.apiMsg = {m}], model_index)]
            /\ UNCHANGED <<llm, model_index>>
    /\ UNCHANGED <<frontVars, GROQ_API_KEY, files, started, raw, cleaned, tables>>

\* lines 252-272 (and 302-323 when no retry follows): first exec of the code
Exec1(r, I) ==
    /\ req[r].pc = "exec1"
    /\ \E buf \in I.bufs, fe \in I.fes, end \in I.ends, m \in I.msgs, mut \in I.muts :
       /\ end # "Exception" => \A m2 \in I.msgs : Len(m) <= Len(m2)
       /\ LET id   == df_copy(r)
              ts   == [tables EXCEPT ![id] = tables[Canon]]
              fs   == apply_effect(files, req[r].plot, fe)
              err  == IF end = "Exception" THEN {m} ELSE NoErr
              text == strip(buf)
              h    == [hist[r] EXCEPT !.execs = @ + 1, !.saw = @ \cup ts[id],
                                      !.wrote = @ \/ fe = "write_nonempty",
                                      !.first = end, !.firstMsg = err,
                                      !.firstText = text, !.out = buf]
          IN  /\ tables' = IF end # "BaseException" /\ needs_retry(err, text)
                            THEN mutate(ts, id, r, mut)
                            ELSE discard(mutate(ts, id, r, mut), r)
              /\ IF end = "BaseException"
                 THEN /\ files' = fs
                      /\ req' = [req EXCEPT ![r].pc = "raised"]
                      /\ hist' = [hist EXCEPT ![r] = Ended(h, model_index)]
                 ELSE IF needs_retry(err, text)
                 THEN /\ files' = fs
                      /\ req' = [req EXCEPT ![r].pc = "retry_invoke",
                                            ![r].err_msg = err, ![r].text = text]
                      /\ hist' = [hist EXCEPT ![r] = h]
                 ELSE /\ Assemble(r, fs, err, text)
                      /\ hist' = [hist EXCEPT ![r] = Ended(h, model_index)]
    /\ UNCHANGED <<frontVars, GROQ_API_KEY, llm, model_index, started, raw, cleaned>>

\* lines 279-285: the retry's llm.invoke returned a reply
RetryInvokeOk(r) ==
    /\ req[r].pc = "retry_invoke"
    /\ req' = [req EXCEPT ![r].pc = "retry_exec"]
    /\ hist' = [hist EXCEPT ![r].rcalls = @ + 1,
                            ![r].rinvoked = Append(@, retry_client(r, req[r].llm, llm))]
    /\ UNCHANGED <<frontVars, GROQ_API_KEY, llm, model_index, files, started, raw, cleaned, tables>>

\* lines 279-300 then 302-323: the retry's llm.invoke raised
RetryInvokeFail(r, I) ==
    /\ req[r].pc = "retry_invoke"
    /\ \E m \in I.api :
       /\ IF is_quota_error(m)
          THEN Return(r, QuotaReachedMsg) /\ UNCHANGED files
          ELSE Assemble(r, files, {m}, req[r].text)
       /\ hist' = [hist EXCEPT ![r] = Ended([@ EXCEPT !.rcalls = @ + 1,
                                                     !.rinvoked = Append(@,
                                                         retry_client(r, req[r].llm, llm)),
                                                     !.retry = "api",
                                                     !.retryMsg = {m}], model_index)]
    /\ tables' = discard(tables, r)
    /\ UNCHANGED <<frontVars, GROQ_API_KEY, llm, model_index, started, raw, cleaned>>

\* lines 286-300 then 302-323: exec of the retry's code
RetryExec(r, I) ==
    /\ req[r].pc = "retry_exec"
    /\ \E buf \in I.bufs, fe \in I.fes, end \in I.ends, m \in I.msgs, mut \in I.muts :
       /\ end # "Exception" => \A m2 \in I.msgs : Len(m) <= Len(m2)
       /\ LET id  == df_copy(r)
              ns  == retry_ns(tables, r)
              fs  == apply_effect(files, req[r].plot, fe)
              err == IF end = "Exception" THEN {m} ELSE NoErr
              h   == [hist[r] EXCEPT !.execs = @ + 1, !.saw = @ \cup ns[id],
                                     !.wrote = @ \/ fe = "write_nonempty",
                                     !.retry = end, !.retryMsg = err,
                                     !.out = IF end = "ok" THEN buf ELSE @]
          IN  /\ tables' = discard(mutate(ns, id, r, mut), r)
              /\ hist' = [hist EXCEPT ![r] = Ended(h, model_index)]
              /\ CASE end = "BaseException" ->
                        /\ files' = fs
                        /\ req' = [req EXCEPT ![r].pc = "raised"]
                   [] end = "Exception" ->
                        IF is_quota_error(m)
                        THEN files' = fs /\ Return(r, QuotaReachedMsg)
                        ELSE Assemble(r, fs, err, req[r].text)
                   [] end = "ok" ->
                        Assemble(r, fs, NoErr, strip(buf))
    /\ UNCHANGED <<frontVars, GROQ_API_KEY, llm, model_index, started, raw, cleaned>>

\* the caller has taken the result (or the failure); the slot serves a new call
Reset(r, I) ==
    /\ req[r].pc \in {"done", "raised"}
    /\ started < I.max
    /\ req' = [req EXCEPT ![r] = IdleReq]
    /\ hist' = [hist EXCEPT ![r] = IdleHist]
    /\ UNCHANGED <<frontVars, GROQ_API_KEY, llm, model_index, files, started, raw, cleaned, tables>>

Step(r, I) ==
    \/ Start(r, I)
    \/ InvokeOk(r)
    \/ InvokeFail(r, I)
    \/ Exec1(r, I)
    \/ RetryInvokeOk(r)
    \/ RetryInvokeFail(r, I)
    \/ RetryExec(r, I)
    \/ Reset(r, I)

\* Calls one after the other, as the chat endpoint makes them: it calls
\* process_query synchronously on the event loop.
Next == Step("A", SeqInputs)

Spec == Init /\ [][Next]_vars

\* Overlapping calls (process_query called from several threads).
NextPar == \E r \in Reqs : Step(r, ParInputs)

SpecPar == Init /\ [][NextPar]_vars

\* process_query is synchronous: once called it keeps running as long as its
\* model invocations and executions return or raise.
SpecFair == Init /\ [][Next]_vars /\ WF_vars(Next)

\* ------------------------------------------------------------- sanitizer
\* _clean_code applied to a reply, and applied again to its own result
Clean ==
    /\ Len(cleaned) < 2
    /\ cleaned' = Append(cleaned, clean_code(IF cleaned = <<>> THEN raw
                                              ELSE cleaned[Len(cleaned)]))
    /\ UNCHANGED <<frontVars, GROQ_API_KEY, llm, model_index, files, started, req, hist, raw, tables>>

InitClean ==
    /\ GROQ_API_KEY = TRUE
    /\ InitAgent
    /\ raw \in Replies
    /\ cleaned = <<>>
    /\ InitFront

NextClean == Clean

SpecClean == InitClean /\ [][NextClean]_vars

\* ------------------------------------------------------------- chat endpoint
\* (src/backend/api/endpoints.py)  The messages a client can post.
Messages == { <<>>, <<" ">>, <<" ", "NL">>, <<"q">>, <<" ", "q", " ">> }

\* What process_query can hand back to the endpoint: a result (the returns of
\* agent.py), an Exception (the os.path/os.remove calls of lines 304-308 and the
\* client construction of line 105 stand outside every try block), or a
\* BaseException raised by the generated code (exec, lines 264 and 288).
QueryResponses == { ConfigMsg, RateLimitedMsg, QuotaReachedMsg, NoOutputMsg,
                    VisualisationMsg, <<"a">>, ExecErrorResponse(<<"boom">>) }
QueryResults == [response : QueryResponses,
                 image_url : {NoImage} \cup {<<"/static/", p>> : p \in Plots}]
QueryErrors == { <<"No", "such", "file">> }

\* line 16: `if not request.message.strip()`
is_blank(message) == strip(message) = <<>>

\* line 25: detail=f"Internal server error: {exc}"
server_error_detail(m) == <<"Internal server error: ">> \o m

\* lines 31-34: ChatResponse(response=result["response"], image_url=result.get("image_url"))
chat_response(result) == [response |-> result.response, image_url |-> result.image_url]

\* lines 11-22: a request arrives; a blank message is refused, any other is
\* handed to process_query
Post ==
    /\ ep.pc \in {"idle", "answered", "escaped"}
    /\ ep.posts < MaxRequests
    /\ \E message \in Messages :
         ep' = IF is_blank(message)
               THEN [IdleEp EXCEPT !.pc = "answered", !.message = message,
                                   !.status = 422,
                                   !.detail = <<"Message cannot be empty.">>,
                                   !.posts = ep.posts + 1]
               ELSE [IdleEp EXCEPT !.pc = "called", !.message = message,
                                   !.called = TRUE, !.posts = ep.posts + 1]
    /\ UNCHANGED <<GROQ_API_KEY, agentVars, ui, sa>>

\* lines 22, 27-34: process_query returned
QueryReturns ==
    /\ ep.pc = "called"
    /\ \E result \in QueryResults :
         ep' = [ep EXCEPT !.pc = "answered", !.outcome = "returned",
                          !.result = result, !.status = 200,
                          !.body = chat_response(result)]
    /\ UNCHANGED <<GROQ_API_KEY, agentVars, ui, sa>>

\* lines 23-25: process_query raised an Exception
QueryRaisesException ==
    /\ ep.pc = "called"
    /\ \E m \in QueryErrors :
         ep' = [ep EXCEPT !.pc = "answered", !.outcome = "Exception",
                          !.raised = m, !.status = 500,
                          !.detail = server_error_detail(m)]
    /\ UNCHANGED <<GROQ_API_KEY, agentVars, ui, sa>>

\* line 23: `except Exception` lets a BaseException through; it leaves
\* chat_endpoint
QueryRaisesBaseException ==
    /\ ep.pc = "called"
    /\ ep' = [ep EXCEPT !.pc = "escaped", !.outcome = "BaseException"]
    /\ UNCHANGED <<GROQ_API_KEY, agentVars, ui, sa>>

InitEndpoint ==
    /\ GROQ_API_KEY = TRUE
    /\ InitAgent
    /\ raw = <<>>
    /\ cleaned = <<>>
    /\ InitFront

NextEndpoint ==
    \/ Post
    \/ QueryReturns
    \/ QueryRaisesException
    \/ QueryRaisesBaseException

SpecEndpoint == InitEndpoint /\ [][NextEndpoint]_vars

\* ------------------------------------------------------------- front ends
\* (src/frontend/app.py and src/streamlit_app.py)
\* What the user can type into st.chat_input, and the sidebar suggestions.
Typed == { <<>>, <<" ">>, <<" ", "q">> }
Suggestions == { <<"s">> }
Events == {[kind |-> "button", q |-> q] : q \in Suggestions}
            \cup {[kind |-> "clear", q |-> <<>>]}
            \cup {[kind |-> "input", q |-> q] : q \in Typed}

\* _handle_query: `if not question.strip(): return`
blank_question(q) == strip(q) = <<>>

\* frontend/app.py line 107 strips the question before storing it,
\* streamlit_app.py line 217 stores it as typed
stored_question(variant, q) == IF variant = "frontend" THEN strip(q) ELSE q

UserMessage(variant, q) ==
    [role |-> "user", content |-> stored_question(variant, q), image |-> NoImage]
AssistantMessage(text, image) ==
    [role |-> "assistant", content |-> text, image |-> image]

\* where the script goes on after _handle_query: app.py falls through to the
\* chat input; streamlit_app.py calls st.rerun() after a trigger, and the run
\* that follows has no widget event
after_handle(variant, cont) ==
    IF cont = "trigger" /\ variant = "frontend" THEN "input_check" ELSE "idle"

\* the assistant message is appended and _handle_query returns
deliver(u, text, image) ==
    [u EXCEPT !.messages = Append(@, AssistantMessage(text, image)),
              !.pc = after_handle(u.variant, u.cont)]

\* _post_query of app.py: what the POST to the backend can come to, and the
\* (text, image_url) pair made of it
PostOutcomes ==
    { [kind |-> "200", response |-> <<"a">>, image_url |-> NoImage, detail |-> <<>>],
      [kind |-> "200", response |-> VisualisationMsg, image_url |-> <<"/static/", 1>>,
       detail |-> <<>>] }
    \cup {[kind |-> k, response |-> <<>>, image_url |-> NoImage, detail |-> <<"d">>] :
        k \in {"500", "ConnectionError", "Timeout", "Exception"}}

post_query(o) ==
    CASE o.kind = "200" -> [text |-> o.response, image |-> o.image_url]
      [] o.kind = "500" ->
            [text |-> <<"Backend error ", "500", ": ">> \o o.detail, image |-> NoImage]
      [] o.kind = "ConnectionError" ->
            [text |-> <<"Cannot connect to the backend.">>, image |-> NoImage]
      [] o.kind = "Timeout" ->
            [text |-> <<"Request timed out.">>, image |-> NoImage]
      [] o.kind = "Exception" ->
            [text |-> <<"Unexpected error: ">> \o o.detail, image |-> NoImage]

\* ---- process_query of streamlit_app.py
SA_QUOTA_PHRASES == QUOTA_PHRASES \cup { <<"rate_limit">> }
sa_is_quota_error(msg) == \E p \in SA_QUOTA_PHRASES : Contains(lower(msg), lower(p))
SaApiMsgs == ApiMsgs \cup { <<"rate_limit", "exceeded">> }

SaConfigMsg == <<"GROQ_API_KEY is not configured. Add it to .env or to the app secrets.">>
SaRateLimitedMsg ==
    <<"All Groq models are currently rate-limited. Please wait a minute and try again.">>
SaNoOutputMsg == <<"Analysis ran but produced no output. Try rephrasing.">>
SaApiError(m) == <<"Error calling Groq API: ">> \o m
SaAnalysisError(m) == <<"Analysis error: ">> \o m \o <<" Try rephrasing your question.">>
PngBytes == <<"png">>

\* line 147: `for model in _MODEL_CASCADE` starts at the first entry, wherever
\* the request before ended
cascade_start_resume(previous) == previous
cascade_start(previous) == 1

\* lines 197-204
sa_result(err, text, img) ==
    IF Truthy(err) /\ text = <<>> /\ img = NoImage
    THEN [text |-> SaAnalysisError(MsgOf(err)), image |-> NoImage]
    ELSE IF text = <<>> /\ img # NoImage THEN [text |-> VisualisationMsg, image |-> img]
    ELSE IF text = <<>> THEN [text |-> SaNoOutputMsg, image |-> NoImage]
    ELSE [text |-> text, image |-> img]

\* _handle_query(q) up to its blocking call; u0 is the session state it starts
\* from and cont tells what called it
Handle(u0, q, cont) ==
    IF blank_question(q)
    THEN /\ ui' = [u0 EXCEPT !.pc = after_handle(u0.variant, cont)]
         /\ UNCHANGED sa
    ELSE LET u1 == [u0 EXCEPT !.messages = Append(@, UserMessage(u0.variant, q)),
                              !.cont = cont, !.asked = @ + 1, !.pc = "waiting"]
             s1 == [IdleSa EXCEPT !.pos = cascade_start(sa.pos),
                                  !.earlier = sa.earlier + sa.quotaFails]
         IN  IF u0.variant = "frontend"
             THEN ui' = u1 /\ UNCHANGED sa
             ELSE IF ~GROQ_API_KEY
             THEN /\ ui' = deliver(u1, SaConfigMsg, NoImage)
                  /\ sa' = [s1 EXCEPT !.pc = "returned", !.result = SaConfigMsg]
             ELSE IF s1.pos > N
             THEN /\ ui' = deliver(u1, SaRateLimitedMsg, NoImage)
                  /\ sa' = [s1 EXCEPT !.pc = "returned", !.result = SaRateLimitedMsg]
             ELSE /\ ui' = u1
                  /\ sa' = [s1 EXCEPT !.pc = "invoke"]

\* a widget event starts a script run; the sidebar is executed first
RunStart ==
    /\ ui.pc = "idle"
    /\ ui.runs < MaxRuns
    /\ \E e \in Events :
         ui' = CASE e.kind = "button" ->
                      [ui EXCEPT !.trigger = e.q, !.event = e,
                                 !.pc = "trigger_check", !.runs = @ + 1]
                 [] e.kind = "clear" ->
                      [ui EXCEPT !.messages = <<>>, !.trigger = NoTrigger,
                                 !.event = NoEvent, !.asked = 0, !.runs = @ + 1]
                 [] e.kind = "input" ->
                      [ui EXCEPT !.event = e, !.pc = "trigger_check", !.runs = @ + 1]
    /\ UNCHANGED <<GROQ_API_KEY, agentVars, ep, sa>>

\* `if st.session_state.trigger:` the trigger is reset, then handled
TriggerCheck ==
    /\ ui.pc = "trigger_check"
    /\ IF ui.trigger # NoTrigger /\ ui.trigger # <<>>
       THEN Handle([ui EXCEPT !.trigger = NoTrigger], ui.trigger, "trigger")
       ELSE ui' = [ui EXCEPT !.pc = "input_check"] /\ UNCHANGED sa
    /\ UNCHANGED <<GROQ_API_KEY, agentVars, ep>>

\* `if prompt := st.chat_input(...)`
InputCheck ==
    /\ ui.pc = "input_check"
    /\ IF ui.event.kind = "input" /\ ui.event.q # <<>>
       THEN Handle(ui, ui.event.q, "input")
       ELSE ui' = [ui EXCEPT !.pc = "idle"] /\ UNCHANGED sa
    /\ UNCHANGED <<GROQ_API_KEY, agentVars, ep>>

\* app.py: _post_query returned
PostQueryReturns ==
    /\ ui.pc = "waiting"
    /\ ui.variant = "frontend"
    /\ \E o \in PostOutcomes :
         ui' = deliver(ui, post_query(o).text, post_query(o).image)
    /\ UNCHANGED <<GROQ_API_KEY, agentVars, ep, sa>>

\* streamlit_app.py lines 147-160: the model replied
SaInvokeOk ==
    /\ ui.pc = "waiting"
    /\ sa.pc = "invoke"
    /\ sa' = [sa EXCEPT !.pc = "exec", !.invoked = Append(@, MODEL_CASCADE[sa.pos])]
    /\ UNCHANGED <<GROQ_API_KEY, agentVars, ep, ui>>

\* streamlit_app.py lines 161-172: the invocation raised
SaInvokeFail ==
    /\ ui.pc = "waiting"
    /\ sa.pc = "invoke"
    /\ \E m \in SaApiMsgs :
         LET s1 == [sa EXCEPT !.invoked = Append(@, MODEL_CASCADE[sa.pos])] IN
         IF sa_is_quota_error(m)
         THEN IF sa.pos + 1 > N
              THEN /\ sa' = [s1 EXCEPT !.pc = "returned", !.pos = @ + 1,
                                       !.quotaFails = @ + 1,
                                       !.result = SaRateLimitedMsg]
                   /\ ui' = deliver(ui, SaRateLimitedMsg, NoImage)
              ELSE /\ sa' = [s1 EXCEPT !.pos = @ + 1, !.quotaFails = @ + 1]
                   /\ UNCHANGED ui
         ELSE /\ sa' = [s1 EXCEPT !.pc = "returned", !.result = SaApiError(m)]
              /\ ui' = deliver(ui, SaApiError(m), NoImage)
    /\ UNCHANGED <<GROQ_API_KEY, agentVars, ep>>

\* streamlit_app.py lines 174-204: the generated code is executed
SaExec ==
    /\ ui.pc = "waiting"
    /\ sa.pc = "exec"
    /\ \E buf \in {<<>>, <<"a", "NL">>}, img \in {NoImage, PngBytes}, end \in ExecEnds :
         IF end = "BaseException"
         THEN /\ buf = <<>> /\ img = NoImage
              /\ sa' = [sa EXCEPT !.pc = "raised"]
              /\ ui' = [ui EXCEPT !.pc = "idle"]
         ELSE LET err == IF end = "Exception" THEN {<<"boom">>} ELSE NoErr
                  res == sa_result(err, strip(buf), img)
              IN  /\ sa' = [sa EXCEPT !.pc = "returned", !.result = res.text]
                  /\ ui' = deliver(ui, res.text, res.image)
    /\ UNCHANGED <<GROQ_API_KEY, agentVars, ep>>

InitUI ==
    /\ GROQ_API_KEY \in BOOLEAN
    /\ InitAgent
    /\ raw = <<>>
    /\ cleaned = <<>>
    /\ ep = IdleEp
    /\ ui \in {IdleUi("frontend"), IdleUi("standalone")}
    /\ sa = IdleSa

NextUI ==
    \/ RunStart
    \/ TriggerCheck
    \/ InputCheck
    \/ PostQueryReturns
    \/ SaInvokeOk
    \/ SaInvokeFail
    \/ SaExec

SpecUI == InitUI /\ [][NextUI]_vars

TypeOK ==
    /\ GROQ_API_KEY \in BOOLEAN
    /\ model_index \in Nat
    /\ started \in 0..MaxRequests
    /\ \A r \in Reqs : req[r].pc \in {"idle", "invoke", "exec1", "retry_invoke",
                                      "retry_exec", "done", "raised"}
    /\ ep.pc \in {"idle", "called", "answered", "escaped"}
    /\ ep.status \in {0, 200, 422, 500}
    /\ ui.pc \in {"idle", "trigger_check", "input_check", "waiting"}
    /\ ui.variant \in {"frontend", "standalone"}
    /\ sa.pc \in {"idle", "invoke", "exec", "returned", "raised"}
    /\ sa.pos \in 1..(N + 1)

\* ------------------------------------------------------------- properties
Done(r) == req[r].pc = "done"
TimeoutMsg == <<"connection", "timeout">>
ImageOf(r) == <<"/static/", req[r].plot>>

\* C1: every call of process_query ends by returning a {response, image_url}
\* value; no failure raised on the way escapes the call.
C1_NoFailureEscapes == \A r \in Reqs : req[r].pc # "raised"

\* C2 (as stated): a request whose model invocations all fail with a quota
\* error makes exactly N invocations and returns the rate-limited message
\* with no image.
C2_ExactlyNInvocations ==
    \A r \in Reqs :
        (Done(r) /\ hist[r].calls > 0 /\ hist[r].quotaFails = hist[r].calls)
            => /\ hist[r].calls = N
               /\ req[r].response = RateLimitedMsg
               /\ req[r].image_url = NoImage

\* C2 (amended): a request whose model invocations all fail with a quota
\* error, started with the cascade index at k and not overlapped by another
\* request, makes exactly N - k invocations when k < N and exactly one when the
\* cascade was already exhausted, then returns the rate-limited message with no
\* image, without a retry invocation or an execution.
C2_CascadeExhaustion ==
    \A r \in Reqs :
        (Done(r) /\ hist[r].calls > 0 /\ hist[r].quotaFails = hist[r].calls)
            => /\ hist[r].calls = IF hist[r].startIdx < N
                                  THEN N - hist[r].startIdx ELSE 1
               /\ req[r].response = RateLimitedMsg
               /\ req[r].image_url = NoImage
               /\ hist[r].rcalls = 0
               /\ hist[r].execs = 0

C2_Witness ==
    \E r \in Reqs : /\ Done(r) /\ req[r].response = RateLimitedMsg
                    /\ hist[r].startIdx = 0 /\ hist[r].calls = N

\* C3: when the first execution raises an error and captures no text, the
\* request makes exactly one retry invocation, executes the retry's code when
\* that invocation replies (two executions, never three), and when the retry
\* fails with a non-quota error the response embeds the retry's message and not
\* the first attempt's.
C3_SingleRetry ==
    \A r \in Reqs :
        (Done(r) /\ hist[r].first = "Exception" /\ hist[r].firstText = <<>>)
            => /\ hist[r].rcalls = 1
               /\ hist[r].execs <= 2
               /\ hist[r].retry # "api" => hist[r].execs = 2
               /\ (hist[r].retry \in {"api", "Exception"}
                     /\ ~is_quota_error(MsgOf(hist[r].retryMsg)))
                    => /\ Contains(req[r].response, MsgOf(hist[r].retryMsg))
                       /\ hist[r].firstMsg # hist[r].retryMsg
                            => ~Contains(req[r].response, MsgOf(hist[r].firstMsg))

\* C4: the retry round-trip happens if and only if the first execution raised
\* an error and captured no text.
C4_RetryIff ==
    \A r \in Reqs :
        Done(r) => (hist[r].rcalls >= 1
                      <=> (hist[r].first = "Exception" /\ hist[r].firstText = <<>>))

\* C5: the step in which a first-phase invocation fails with a non-quota error
\* ends the request with a response that contains the error message and no
\* image, without touching the cascade index or the shared client, and a
\* finished request makes no further step (no invocation, no execution).
C5_NonQuotaFailureTerminal ==
    [][\A r \in Reqs :
        /\ (req[r].pc = "invoke" /\ hist'[r].apiMsg = {TimeoutMsg})
             => /\ req'[r].pc = "done"
                /\ Contains(req'[r].response, TimeoutMsg)
                /\ req'[r].image_url = NoImage
                /\ model_index' = model_index
                /\ llm' = llm
                /\ hist'[r].calls = hist[r].calls + 1
                /\ hist'[r].rcalls = 0
                /\ hist'[r].execs = 0
        /\ (Done(r) /\ hist[r].apiMsg = {TimeoutMsg})
             => (req'[r] = req[r] /\ hist'[r] = hist[r]) \/ req'[r].pc = "idle"
      ]_vars

C5_Witness ==
    \E r \in Reqs : /\ Done(r) /\ hist[r].apiMsg = {TimeoutMsg}
                    /\ req[r].response = ApiErrorResponse(TimeoutMsg)
                    /\ hist[r].quotaFails = 1

\* C6: without a credential every request returns the configuration-error
\* message with no image, invokes no model and executes no code, however many
\* requests came before, and the cascade index and the client never change.
C6_NoCredential ==
    ~GROQ_API_KEY =>
        /\ llm = NoClient
        /\ model_index = 0
        /\ \A r \in Reqs :
            /\ req[r].pc \in {"idle", "done"}
            /\ Done(r) => /\ req[r].response = ConfigMsg
                          /\ req[r].image_url = NoImage
            /\ hist[r].calls = 0 /\ hist[r].rcalls = 0 /\ hist[r].execs = 0

C6_Witness ==
    /\ ~GROQ_API_KEY
    /\ started >= 2
    /\ \E r \in Reqs : Done(r) /\ req[r].response = ConfigMsg

\* C7: no step, of any request under any interleaving, decreases the shared
\* cascade index.
C7_IndexMonotonic == [][model_index' >= model_index]_vars

C7_Witness ==
    /\ model_index > N
    /\ \A r \in Reqs : hist[r].quotaFails >= 1

\* C8: when the execution leaves a non-empty captured text, the response is
\* that text (the stdout of the execution, trimmed), and the image reference is
\* attached exactly when a non-empty artifact exists at the plot path.
C8_TextVerbatim ==
    \A r \in Reqs :
        (Done(r) /\ req[r].text # <<>>)
            => /\ req[r].response = strip(hist[r].out)
               /\ req[r].response = req[r].text
               /\ req[r].image_url # NoImage <=> files[req[r].plot] = "nonempty"
               /\ req[r].image_url \in {NoImage, ImageOf(r)}

C8_Witness ==
    \E r \in Reqs : /\ Done(r) /\ req[r].response = <<"a">>
                    /\ Truthy(req[r].err_msg)
                    /\ req[r].image_url = ImageOf(r)

\* C9: after an execution, when no text was captured and a non-empty artifact
\* exists at the plot path the response is the visualisation message with the
\* artifact reference; the formatted execution-error message comes only when no
\* artifact exists, and with no image.
C9_VisualisationPrecedence ==
    \A r \in Reqs :
        (Done(r) /\ hist[r].execs >= 1)
            => /\ (req[r].text = <<>> /\ files[req[r].plot] = "nonempty")
                    => /\ req[r].response = VisualisationMsg
                       /\ req[r].image_url = ImageOf(r)
               /\ IsExecErrorResponse(req[r].response)
                    => /\ files[req[r].plot] # "nonempty"
                       /\ req[r].image_url = NoImage

\* C10: when generated code executed by the request wrote a non-empty file at
\* the plot path (and the file is still there when the request returns), the
\* result carries a non-null image reference.
C10_ArtifactDetected ==
    \A r \in Reqs :
        (Done(r) /\ hist[r].wrote /\ files[req[r].plot] = "nonempty")
            => req[r].image_url # NoImage

RateLimitMsg == <<"Rate", "Limit", "reached">>

\* C11: when a request that executed code returns, the file at its plot path
\* is either non-empty and exposed through the returned image reference, or
\* absent; a zero-byte file never survives the return.
C11_ArtifactExposedOrAbsent ==
    \A r \in Reqs :
        (Done(r) /\ hist[r].execs >= 1)
            => \/ files[req[r].plot] = "absent" /\ req[r].image_url = NoImage
               \/ files[req[r].plot] = "nonempty" /\ req[r].image_url = ImageOf(r)

\* C12: when the first execution raises an error after some output was
\* captured, no retry runs, the request is terminal after that execution, and
\* the response embeds the error message.
C12_ErrorEmbedded ==
    \A r \in Reqs :
        (Done(r) /\ hist[r].first = "Exception" /\ hist[r].firstText # <<>>)
            => /\ hist[r].rcalls = 0
               /\ hist[r].execs = 1
               /\ Contains(req[r].response, MsgOf(hist[r].firstMsg))

\* C13: when the retry's model invocation fails with a rate-limit error, the
\* request ends with the quota-reached message and no image, not with the
\* formatted execution-error message.
C13_RetryQuotaMessage ==
    \A r \in Reqs :
        (Done(r) /\ hist[r].retry = "api" /\ hist[r].retryMsg = {RateLimitMsg})
            => /\ req[r].response = QuotaReachedMsg
               /\ req[r].image_url = NoImage
               /\ ~IsExecErrorResponse(req[r].response)
               /\ hist[r].execs = 1

C13_Witness ==
    \E r \in Reqs : /\ Done(r) /\ hist[r].retry = "api"
                    /\ hist[r].retryMsg = {RateLimitMsg}
                    /\ hist[r].firstMsg = {<<"boom">>}
                    /\ req[r].response = QuotaReachedMsg

CountFences(s) == Cardinality({i \in 1..Len(s) : s[i] = Fence})

\* C14: _clean_code is idempotent: applied to its own result it changes nothing.
C14_CleanIdempotent == Len(cleaned) = 2 => cleaned[2] = cleaned[1]

\* C15: for a reply that starts with a fence marker and ends with one, with
\* something other than a fence next to each, _clean_code removes exactly those
\* two markers: every fence marker in the interior is still there.
C15_InteriorFencesKept ==
    (/\ Len(cleaned) >= 1 /\ Len(raw) >= 3
     /\ raw[1] = Fence /\ raw[Len(raw)] = Fence
     /\ raw[2] # Fence /\ raw[Len(raw) - 1] # Fence)
        => CountFences(cleaned[1]) = CountFences(raw) - 2

\* C16: the code of a request only ever finds its own row changes in df, never
\* those of another request, and the table loaded at import is never changed.
C16_DatasetIsolation ==
    /\ tables[Canon] = {}
    /\ \A r \in Reqs : hist[r].saw \subseteq {r}

C16_Witness ==
    /\ \A r \in Reqs : tables[r] = {r} /\ req[r].pc \in {"retry_invoke", "retry_exec"}

\* C17: no two requests are given the same plot path.
C17_UniquePlotPaths ==
    \A r, q \in Reqs :
        (r # q /\ req[r].plot # 0 /\ req[q].plot # 0) => req[r].plot # req[q].plot

\* what only the cascade advance may do: change the index, or replace a client
\* that was already constructed
ChangedByAdvanceOnly ==
    /\ model_index' # model_index
         => \E r \in Reqs : hist'[r].quotaFails = hist[r].quotaFails + 1
    /\ (llm' # llm /\ llm # NoClient)
         => \E r \in Reqs : hist'[r].quotaFails = hist[r].quotaFails + 1

\* C18: the index is always a valid position of the cascade, the
\* client once constructed is bound to the identifier at that index, and both
\* change only through the cascade advance.
C18_IndexInRange ==
    /\ [](/\ model_index \in 0..(N - 1)
          /\ llm # NoClient => llm = MODEL_CASCADE[model_index + 1])
    /\ [][ChangedByAdvanceOnly]_vars

PosOf(m) == CHOOSE i \in 1..N : MODEL_CASCADE[i] = m

C20_EventuallyReturns ==
    /\ [](\A r \in Reqs : /\ hist[r].calls <= N
                          /\ hist[r].rcalls <= 1
                          /\ hist[r].execs <= 2)
    /\ \A r \in Reqs : (req[r].pc = "invoke") ~> (req[r].pc = "done")

\* C21: the quota-reached response comes only after the retry's model
\* invocation failed with a quota error; when the retry's generated code raises
\* an error the response is the formatted execution-error message with that
\* error in it.
C21_QuotaOnlyFromInvocation ==
    \A r \in Reqs :
        Done(r) =>
            /\ req[r].response = QuotaReachedMsg
                 => /\ hist[r].retry = "api"
                    /\ is_quota_error(MsgOf(hist[r].retryMsg))
            /\ hist[r].retry = "Exception"
                 => req[r].response = ExecErrorResponse(MsgOf(hist[r].retryMsg))

\* the steps request r takes in its retry phase
RetryStep(r) == req[r].pc \in {"retry_invoke", "retry_exec"} /\ req'[r] # req[r]

\* C22: the retry invokes the model whose reply gave the first code, and no
\* step of the retry phase changes the cascade index or the shared client.
C22_RetryKeepsCascade ==
    /\ [](\A r \in Reqs :
            hist[r].rcalls >= 1
              => hist[r].rinvoked = <<hist[r].invoked[Len(hist[r].invoked)]>>)
    /\ [][\A r \in Reqs : RetryStep(r) => model_index' = model_index /\ llm' = llm]_vars

C22_Witness ==
    \E r \in Reqs :
        /\ Done(r) /\ hist[r].rcalls = 1
        /\ hist[r].rinvoked = <<MODEL_CASCADE[1]>>
        /\ llm = MODEL_CASCADE[2]

\* C23: a request that starts after the cascade was exhausted makes one
\* first-phase invocation, of the last cascade model; when that invocation
\* fails with a quota error the request returns the rate-limited message.
C23_AfterExhaustion ==
    \A r \in Reqs :
        (hist[r].startIdx >= N /\ req[r].pc # "idle")
            => /\ req[r].llm = MODEL_CASCADE[N]
               /\ hist[r].calls <= 1
               /\ req[r].pc # "invoke" => hist[r].calls = 1
               /\ \A i \in 1..Len(hist[r].invoked) : hist[r].invoked[i] = MODEL_CASCADE[N]
               /\ hist[r].quotaFails = 1
                    => Done(r) /\ req[r].response = RateLimitedMsg
                               /\ req[r].image_url = NoImage

C23_Witness ==
    \E r \in Reqs :
        /\ hist[r].startIdx > N
        /\ Done(r) /\ hist[r].quotaFails = 1
        /\ req[r].response = RateLimitedMsg

\* C24: no request ever returns the no-response-generated message.
C24_NoResponseUnreachable ==
    \A r \in Reqs : req[r].response # NoResponseMsg

C24_Witness ==
    \E r, q \in Reqs :
        /\ r # q
        /\ Done(r) /\ hist[r].quotaFails >= 2 /\ req[r].response = RateLimitedMsg
        /\ hist[q].quotaFails >= 1

\* C25: the retry's code runs in the namespace the first attempt left behind
\* (it finds the row changes of the first attempt), and the final text is the
\* output of a retry that ended normally and nothing else: not the output of
\* the first attempt, not the output of a retry that raised.
C25_RetrySharesNamespace ==
    /\ [][\A r \in Reqs :
            (req[r].pc = "retry_exec" /\ req'[r] # req[r] /\ r \in tables[r])
                => r \in hist'[r].saw]_vars
    /\ [](\A r \in Reqs :
            (Done(r) /\ hist[r].rcalls = 1 /\ req[r].response # QuotaReachedMsg)
                => req[r].text = IF hist[r].retry = "ok" THEN strip(hist[r].out)
                                 ELSE <<>>)

C25_Witness ==
    \E r \in Reqs :
        /\ Done(r) /\ hist[r].retry = "ok"
        /\ hist[r].saw = {r}
        /\ req[r].text = <<"a">>

\* C27: the endpoint answers every request, in one of three ways: status 422
\* for a blank message, without calling process_query; status 500 with the
\* failure text when process_query raises; otherwise status 200 with exactly
\* the response and image_url process_query returned.
C27_ThreeOutcomes ==
    /\ ep.pc # "escaped"
    /\ ep.pc = "answered" =>
         \/ /\ is_blank(ep.message) /\ ~ep.called /\ ep.status = 422
         \/ /\ ~is_blank(ep.message) /\ ep.called
            /\ ep.outcome = "Exception" /\ ep.status = 500
            /\ Contains(ep.detail, ep.raised)
         \/ /\ ~is_blank(ep.message) /\ ep.called
            /\ ep.outcome = "returned" /\ ep.status = 200
            /\ ep.body.response = ep.result.response
            /\ ep.body.image_url = ep.result.image_url

\* C26: in the standalone app every request tries the cascade from its first
\* entry, in order, each entry at most once, whatever earlier requests met; it
\* returns the rate-limited message after exactly N quota failures, and only
\* then.
C26_PerRequestCascade ==
    /\ sa.invoked = SubSeq(MODEL_CASCADE, 1, Len(sa.invoked))
    /\ sa.quotaFails <= N
    /\ (sa.pc = "returned" /\ sa.result = SaRateLimitedMsg)
         => sa.quotaFails = N /\ Len(sa.invoked) = N
    /\ sa.quotaFails = N => sa.pc = "returned" /\ sa.result = SaRateLimitedMsg

C26_Witness ==
    /\ sa.earlier >= 1
    /\ sa.pc = "returned" /\ sa.result = SaRateLimitedMsg
    /\ sa.quotaFails = N

\* C28: whenever no script run is in progress the stored history has even
\* length, twice the number of non-blank questions asked since the last clear;
\* user and assistant messages alternate; and while a question is being
\* answered the trigger is already reset.
C28_AlternatingHistory ==
    /\ ui.pc = "idle" => Len(ui.messages) = 2 * ui.asked
    /\ \A i \in 1..Len(ui.messages) :
         ui.messages[i].role = IF i % 2 = 1 THEN "user" ELSE "assistant"
    /\ ui.pc = "waiting" => ui.trigger = NoTrigger

====
